---- MODULE Spec2Model ----
(***************************************************************************)
(* A model of the logic engine of LogiMaster (src/src/App.js): the         *)
(* tokenizer, the precedence parser, the canonical renderer, the           *)
(* evaluator, the sub-expression extractor, the truth-table generator and  *)
(* the strict reduction session.                                           *)
(*                                                                         *)
(* A JavaScript string is modelled as a sequence of one-character strings, *)
(* so that rendering, whitespace removal, splitting and regular-expression *)
(* replacement are computed character by character.  A token is a string,  *)
(* that is, a sequence of characters too.  The five connective glyphs are  *)
(* written with ASCII stand-ins:                                           *)
(*      NOT "~"    AND "&"    OR "|"    IMPLIES ">"    IFF "="             *)
(***************************************************************************)
EXTENDS Integers, Sequences, FiniteSets, TLC

VARIABLES
    pc,         \* which pipeline the behaviour runs and how far it got
    tokens,     \* parser pipeline: the token list handed to parseToAST
    ast,        \* parser pipeline: the tree parseToAST returned
    fullStr,    \* parser pipeline: ast.toFullString()
    subs,       \* parser pipeline: getSubExpressions(ast), in insertion order
    formula,    \* evaluator / truth table: the formula string
    values,     \* evaluator: the assignment handed to solveProposition
    solved,     \* evaluator: what solveProposition returned
    variables,  \* truth table: the `variables` state of SatisfactionSection;
                \* reduction session: the `variables` state of EvaluationSection
    subExprs,   \* truth table: the `subExprs` state
    rows,       \* truth table: the `rows` state
    history,    \* reduction session: the `history` state
    msg,        \* reduction session: the `msg` state
    input,      \* syntax section: the `input` state
    status,     \* syntax section: the `status` state
    errorMsg,   \* syntax section: the `errorMsg` state
    mode,       \* syntax section: the `mode` state
    deepest     \* generators: the largest `depth` a call of
                \* generateStructuredFormula was made with

vars == <<pc, tokens, ast, fullStr, subs, formula, values, solved,
          variables, subExprs, rows, history, msg, input, status, errorMsg,
          mode, deepest>>

\* The syntax section as useState leaves it (lines 306-310), for the
\* behaviours that do not use it; no generator call has been made.
SyntaxIdle ==
    /\ input = <<>>
    /\ status = "idle"
    /\ errorMsg = ""
    /\ mode = "auto"
    /\ deepest = 0

SyntaxFrame == UNCHANGED <<input, status, errorMsg, mode, deepest>>

-----------------------------------------------------------------------------
(* Constants and configuration (App.js lines 5-21)                          *)

SYMBOLS == [NOT |-> "~", AND |-> "&", OR |-> "|", IMP |-> ">", IFF |-> "="]

VARS == <<"P", "Q", "R", "S", "T", "U">>

PRECEDENCE_andOrSwapped ==
    (SYMBOLS.NOT :> 5) @@ (SYMBOLS.AND :> 3) @@ (SYMBOLS.OR :> 4) @@
    (SYMBOLS.IMP :> 2) @@ (SYMBOLS.IFF :> 1)

PRECEDENCE ==
    (SYMBOLS.NOT :> 5) @@ (SYMBOLS.AND :> 4) @@ (SYMBOLS.OR :> 3) @@
    (SYMBOLS.IMP :> 2) @@ (SYMBOLS.IFF :> 1)

\* A one-character token.
Tok(c) == <<c>>

LP == Tok("(")
RP == Tok(")")
NOT == Tok(SYMBOLS.NOT)
AND == Tok(SYMBOLS.AND)
OR == Tok(SYMBOLS.OR)
IMP == Tok(SYMBOLS.IMP)
IFF == Tok(SYMBOLS.IFF)

BinaryOps == {AND, OR, IMP, IFF}

\* PRECEDENCE[t] as JavaScript evaluates it for a token t: the rank of a
\* connective glyph, undefined (modelled as 0, equally falsy) for any other.
PrecedenceOf(t) ==
    IF Len(t) = 1 /\ t[1] \in DOMAIN PRECEDENCE THEN PRECEDENCE[t[1]] ELSE 0

\* The characters the tokenizer splits on: /([~&|>=()])/.
SplitChars_noParens ==
    {SYMBOLS.NOT, SYMBOLS.AND, SYMBOLS.OR, SYMBOLS.IMP, SYMBOLS.IFF}

SplitChars ==
    {SYMBOLS.NOT, SYMBOLS.AND, SYMBOLS.OR, SYMBOLS.IMP, SYMBOLS.IFF, "(", ")"}

\* Sequence helpers.
Range(s) == {s[i] : i \in 1..Len(s)}

\* Array.prototype.join(sep) on an array of strings.
RECURSIVE Join(_, _)
Join(ss, sep) ==
    IF ss = <<>> THEN <<>>
    ELSE IF Len(ss) = 1 THEN ss[1]
    ELSE ss[1] \o sep \o Join(Tail(ss), sep)

\* Array.prototype.slice(from, to) with 0-based, end-exclusive bounds.
Slice(s, from, to) == SubSeq(s, from + 1, to)

-----------------------------------------------------------------------------
(* Tokenizer: str.replace(/\s/g, '').split(/([~&|>=()])/).filter(t => t)    *)

RemoveWhitespace(str) == SelectSeq(str, LAMBDA c : c # " ")

RECURSIVE SplitKeeping(_, _)
SplitKeeping(str, cur) ==
    LET flush == IF cur = <<>> THEN <<>> ELSE <<cur>> IN
    IF str = <<>> THEN flush
    ELSE IF Head(str) \in SplitChars
         THEN flush \o <<Tok(Head(str))>> \o SplitKeeping(Tail(str), <<>>)
         ELSE SplitKeeping(Tail(str), Append(cur, Head(str)))

tokenize(str) == SplitKeeping(RemoveWhitespace(str), <<>>)

-----------------------------------------------------------------------------
(* AST nodes and the canonical renderer                                     *)

null == [type |-> "null"]

ASTNode(type, value, left, right) ==
    [type |-> type, value |-> value, left |-> left, right |-> right]

ERR == <<"E", "R", "R">>

RECURSIVE toFullString(_)
toFullString(node) ==
    IF node.type = "ATOM" THEN node.value
    ELSE IF node.type = "NOT"
         THEN <<"(", SYMBOLS.NOT, " ">> \o toFullString(node.left) \o <<")">>
         ELSE <<"(">> \o toFullString(node.left) \o <<" ">> \o node.value
              \o <<" ">> \o toFullString(node.right) \o <<")">>

-----------------------------------------------------------------------------
(* Parser.  Positions are 1-based; findSplit returns 0 where the code       *)
(* returns -1.                                                              *)

\* The loop of findSplit without its `if (t === SYMBOLS.NOT) continue`.
RECURSIVE findSplitLoop_splitsOnNot(_, _, _, _, _)
findSplitLoop_splitsOnNot(toks, i, balance, splitIdx, minPrec) ==
    IF i < 1 THEN splitIdx
    ELSE LET t == toks[i] IN
         IF t = RP
         THEN findSplitLoop_splitsOnNot(toks, i - 1, balance + 1, splitIdx,
                                        minPrec)
         ELSE IF t = LP
              THEN findSplitLoop_splitsOnNot(toks, i - 1, balance - 1,
                                             splitIdx, minPrec)
         ELSE IF balance = 0
              THEN LET prec == IF PrecedenceOf(t) # 0
                               THEN PrecedenceOf(t) ELSE 100
                   IN IF prec < 100 /\ prec < minPrec
                      THEN findSplitLoop_splitsOnNot(toks, i - 1, balance, i,
                                                     prec)
                      ELSE findSplitLoop_splitsOnNot(toks, i - 1, balance,
                                                     splitIdx, minPrec)
         ELSE findSplitLoop_splitsOnNot(toks, i - 1, balance, splitIdx,
                                        minPrec)

\* The loop of findSplit with `prec <= minPrec`: among equal ranks the last
\* one scanned, the leftmost, is kept.
RECURSIVE findSplitLoop_keepsLeftmost(_, _, _, _, _)
findSplitLoop_keepsLeftmost(toks, i, balance, splitIdx, minPrec) ==
    IF i < 1 THEN splitIdx
    ELSE LET t == toks[i] IN
         IF t = RP
         THEN findSplitLoop_keepsLeftmost(toks, i - 1, balance + 1, splitIdx,
                                          minPrec)
         ELSE IF t = LP
              THEN findSplitLoop_keepsLeftmost(toks, i - 1, balance - 1,
                                               splitIdx, minPrec)
         ELSE IF balance = 0
              THEN IF t = NOT
                   THEN findSplitLoop_keepsLeftmost(toks, i - 1, balance,
                                                    splitIdx, minPrec)
                   ELSE LET prec == IF PrecedenceOf(t) # 0
                                    THEN PrecedenceOf(t) ELSE 100
                        IN IF prec < 100 /\ prec <= minPrec
                           THEN findSplitLoop_keepsLeftmost(toks, i - 1,
                                                            balance, i, prec)
                           ELSE findSplitLoop_keepsLeftmost(toks, i - 1,
                                                            balance, splitIdx,
                                                            minPrec)
         ELSE findSplitLoop_keepsLeftmost(toks, i - 1, balance, splitIdx,
                                          minPrec)

RECURSIVE findSplitLoop(_, _, _, _, _)
findSplitLoop(toks, i, balance, splitIdx, minPrec) ==
    IF i < 1 THEN splitIdx
    ELSE LET t == toks[i] IN
         IF t = RP THEN findSplitLoop(toks, i - 1, balance + 1, splitIdx, minPrec)
         ELSE IF t = LP
              THEN findSplitLoop(toks, i - 1, balance - 1, splitIdx, minPrec)
         ELSE IF balance = 0
              THEN IF t = NOT
                   THEN findSplitLoop(toks, i - 1, balance, splitIdx, minPrec)
                   ELSE LET prec == IF PrecedenceOf(t) # 0
                                    THEN PrecedenceOf(t) ELSE 100
                        IN IF prec < 100 /\ prec < minPrec
                           THEN findSplitLoop(toks, i - 1, balance, i, prec)
                           ELSE findSplitLoop(toks, i - 1, balance, splitIdx,
                                              minPrec)
         ELSE findSplitLoop(toks, i - 1, balance, splitIdx, minPrec)

findSplit(toks) == findSplitLoop(toks, Len(toks), 0, 0, 100)

\* The loop of isBalanced without its `if (bal < 0) return false`.
RECURSIVE isBalancedLoop_countsOnly(_, _)
isBalancedLoop_countsOnly(toks, bal) ==
    IF toks = <<>> THEN bal = 0
    ELSE LET t == Head(toks)
             b == IF t = LP THEN bal + 1 ELSE IF t = RP THEN bal - 1 ELSE bal
         IN isBalancedLoop_countsOnly(Tail(toks), b)

RECURSIVE isBalancedLoop(_, _)
isBalancedLoop(toks, bal) ==
    IF toks = <<>> THEN bal = 0
    ELSE LET t == Head(toks)
             b == IF t = LP THEN bal + 1 ELSE IF t = RP THEN bal - 1 ELSE bal
         IN IF b < 0 THEN FALSE ELSE isBalancedLoop(Tail(toks), b)

isBalanced(toks) == isBalancedLoop(toks, 0)

\* The while loop of parseToAST that strips outer parentheses.
RECURSIVE stripOuter(_)
stripOuter(toks) ==
    IF /\ Len(toks) >= 2
       /\ toks[1] = LP
       /\ toks[Len(toks)] = RP
       /\ isBalanced(Slice(toks, 1, Len(toks) - 1))
    THEN stripOuter(Slice(toks, 1, Len(toks) - 1))
    ELSE toks

\* The designated parse-error atom: new ASTNode('ATOM', 'ERR').
ParseErrorAtom_null == null

ParseErrorAtom == ASTNode("ATOM", ERR, null, null)

RECURSIVE parseToAST(_)
parseToAST(toks0) ==
    LET toks == stripOuter(toks0)
        split == findSplit(toks)
    IN IF Len(toks) = 0 THEN ParseErrorAtom
       ELSE IF Len(toks) = 1 THEN ASTNode("ATOM", toks[1], null, null)
       ELSE IF toks[1] = NOT /\ split = 0
            THEN ASTNode("NOT", NOT, parseToAST(Tail(toks)), null)
       ELSE IF split # 0
            THEN ASTNode("BIN", toks[split],
                         parseToAST(Slice(toks, 0, split - 1)),
                         parseToAST(Slice(toks, split, Len(toks))))
       ELSE IF toks[1] = NOT
            THEN ASTNode("NOT", NOT, parseToAST(Tail(toks)), null)
       ELSE ParseErrorAtom

-----------------------------------------------------------------------------
(* Sub-expression extractor.  The JavaScript Set keeps insertion order and  *)
(* drops repeats; it is modelled as a sequence without repeats.             *)

SetAdd_keepRepeats(list, s) == Append(list, s)

SetAdd(list, s) == IF s \in Range(list) THEN list ELSE Append(list, s)

RECURSIVE getSubExpressionsInto(_, _)
getSubExpressionsInto(node, list) ==
    IF node = null THEN list
    ELSE IF node.type = "BIN"
         THEN getSubExpressionsInto(node.right,
                  getSubExpressionsInto(node.left,
                      SetAdd(list, toFullString(node))))
    ELSE IF node.type = "NOT"
         THEN getSubExpressionsInto(node.left, SetAdd(list, toFullString(node)))
    ELSE list

getSubExpressions(node) == getSubExpressionsInto(node, <<>>)

-----------------------------------------------------------------------------
(* Evaluator                                                                *)

\* String.prototype.toUpperCase on the letters the model uses.
UpperChar(c) ==
    CASE c = "p" -> "P"
      [] c = "q" -> "Q"
      [] OTHER -> c

toUpperCase(str) == [i \in 1..Len(str) |-> UpperChar(str[i])]

\* A lookup that reads a missing key as true.
Lookup_absentTrue(vals, key) == IF key \in DOMAIN vals THEN vals[key] ELSE TRUE

\* !!values[key]: a key the assignment lacks reads as undefined, hence false.
Lookup(vals, key) == IF key \in DOMAIN vals THEN vals[key] ELSE FALSE

\* The operator cascade of evalAST on a Binary node (lines 197-201).
evalBinary_converseImp(op, l, r) ==
    IF op = AND THEN l /\ r
    ELSE IF op = OR THEN l \/ r
    ELSE IF op = IMP THEN l \/ ~r
    ELSE IF op = IFF THEN l = r
    ELSE FALSE

evalBinary(op, l, r) ==
    IF op = AND THEN l /\ r
    ELSE IF op = OR THEN l \/ r
    ELSE IF op = IMP THEN ~l \/ r
    ELSE IF op = IFF THEN l = r
    ELSE FALSE

RECURSIVE evalAST(_, _)
evalAST(node, vals) ==
    IF node.type = "ATOM"
    THEN IF node.value = Tok("1") \/ node.value = Tok("T") THEN TRUE
         ELSE IF node.value = Tok("0") \/ node.value = Tok("F") THEN FALSE
         ELSE Lookup(vals, toUpperCase(node.value))
    ELSE IF node.type = "NOT" THEN ~evalAST(node.left, vals)
    ELSE evalBinary(node.value, evalAST(node.left, vals),
                    evalAST(node.right, vals))

\* No statement inside the try block can throw for a string formula and an
\* object of booleans, so the catch branch (return false) is never taken.
solveProposition(str, vals) == evalAST(parseToAST(tokenize(str)), vals)

-----------------------------------------------------------------------------
(* Bounded inputs                                                           *)

\* Longest token list handed to the parser pipeline.
MaxLen == 5

SeqsUpTo(A, n) == UNION {[1..k -> A] : k \in 0..n}

ParseAtoms == {Tok("P"), Tok("Q"), Tok("R")}

ParseAlphabet == ParseAtoms \cup {NOT, AND, OR, IMP, IFF, LP, RP}

\* The parser never looks inside an atom, so inputs that differ only in the
\* naming of their atoms behave alike: one input per naming is kept, the one
\* whose atoms first appear in the order P, Q, R.
FirstUseOrdered(ts) ==
    \A i \in 1..Len(ts) :
        /\ ts[i] = Tok("Q") => \E j \in 1..(i - 1) : ts[j] = Tok("P")
        /\ ts[i] = Tok("R") => \E j \in 1..(i - 1) : ts[j] = Tok("Q")

TokenInputs == {ts \in SeqsUpTo(ParseAlphabet, MaxLen) : FirstUseOrdered(ts)}

\* Inputs longer than MaxLen that are parsed as well: two parenthesized
\* operands around one connective, and an atom in three pairs.
LongInputs ==
    {<<LP, Tok("P"), RP, op, LP, Tok("Q"), RP>> : op \in BinaryOps}
    \cup {<<LP, LP, LP, Tok("P"), RP, RP, RP>>}

-----------------------------------------------------------------------------
(* Parser pipeline: parse, render, collect, re-tokenize.  Each action       *)
(* applies one function of the engine to the state the previous one left.   *)

ParseIdle ==
    /\ formula = <<>>
    /\ values = <<>>
    /\ solved = FALSE
    /\ variables = <<>>
    /\ subExprs = <<>>
    /\ rows = <<>>
    /\ history = <<>>
    /\ msg = ""
    /\ SyntaxIdle

ParseFrame ==
    /\ UNCHANGED <<formula, values, solved, variables, subExprs, rows,
                   history, msg>>
    /\ SyntaxFrame

InitParse ==
    /\ pc = "tokens"
    /\ tokens \in TokenInputs \cup LongInputs
    /\ ast = null
    /\ fullStr = <<>>
    /\ subs = <<>>
    /\ ParseIdle

Parse ==
    /\ pc = "tokens"
    /\ ast' = parseToAST(tokens)
    /\ pc' = "parsed"
    /\ UNCHANGED <<tokens, fullStr, subs>>
    /\ ParseFrame

Render ==
    /\ pc = "parsed"
    /\ fullStr' = toFullString(ast)
    /\ pc' = "rendered"
    /\ UNCHANGED <<tokens, ast, subs>>
    /\ ParseFrame

Collect ==
    /\ pc = "rendered"
    /\ subs' = getSubExpressions(ast)
    /\ pc' = "collected"
    /\ UNCHANGED <<tokens, ast, fullStr>>
    /\ ParseFrame

\* The canonical string is tokenized again and becomes the next input.
Retokenize ==
    /\ pc = "collected"
    /\ tokens' = tokenize(fullStr)
    /\ ast' = null
    /\ fullStr' = <<>>
    /\ subs' = <<>>
    /\ pc' = "tokens"
    /\ ParseFrame

NextParse == Parse \/ Render \/ Collect \/ Retokenize

SpecParse == InitParse /\ [][NextParse]_vars

-----------------------------------------------------------------------------
(* Evaluator pipeline: solveProposition applied to a formula string and an  *)
(* assignment.                                                              *)

\* Longest formula string handed to solveProposition.
MaxFormulaLen == 3

FormulaChars ==
    {"P", "Q", "p", "0", "1", "T", "F", " ",
     SYMBOLS.NOT, SYMBOLS.AND, SYMBOLS.OR, SYMBOLS.IMP, SYMBOLS.IFF, "(", ")"}

FormulaInputs == SeqsUpTo(FormulaChars, MaxFormulaLen)

\* Assignments: total on P and Q, lacking Q, and naming the literal T.
Assignments ==
    [{Tok("P"), Tok("Q")} -> BOOLEAN] \cup [{Tok("P")} -> BOOLEAN]
        \cup [{Tok("P"), Tok("T")} -> BOOLEAN]

InitEval ==
    /\ pc = "formula"
    /\ formula \in FormulaInputs
    /\ values \in Assignments
    /\ solved = FALSE
    /\ tokens = <<>>
    /\ ast = null
    /\ fullStr = <<>>
    /\ subs = <<>>
    /\ variables = <<>>
    /\ subExprs = <<>>
    /\ rows = <<>>
    /\ history = <<>>
    /\ msg = ""
    /\ SyntaxIdle

Solve ==
    /\ pc = "formula"
    /\ solved' = solveProposition(formula, values)
    /\ pc' = "solved"
    /\ UNCHANGED <<tokens, ast, fullStr, subs, formula, values, variables,
                   subExprs, rows, history, msg>>
    /\ SyntaxFrame

NextEval == Solve

SpecEval == InitEval /\ [][NextEval]_vars

-----------------------------------------------------------------------------
(* Truth-table generator (SatisfactionSection)                              *)

Letters == {"P", "Q", "R", "S", "T", "U", "F", "p", "q", "E"}

\* str.match(/[a-z]+/gi): the maximal runs of letters, left to right.
RECURSIVE LetterRuns(_, _)
LetterRuns(str, cur) ==
    LET flush == IF cur = <<>> THEN <<>> ELSE <<cur>> IN
    IF str = <<>> THEN flush
    ELSE IF Head(str) \in Letters
         THEN LetterRuns(Tail(str), Append(cur, Head(str)))
         ELSE flush \o LetterRuns(Tail(str), <<>>)

\* UTF-16 code units of the upper-case letters, as Array.prototype.sort
\* compares them.
CharCode(c) ==
    CASE c = "E" -> 69 [] c = "F" -> 70 [] c = "P" -> 80 [] c = "Q" -> 81
      [] c = "R" -> 82 [] c = "S" -> 83 [] c = "T" -> 84 [] c = "U" -> 85

RECURSIVE StrLess(_, _)
StrLess(a, b) ==
    IF a = <<>> THEN b # <<>>
    ELSE IF b = <<>> THEN FALSE
    ELSE IF Head(a) = Head(b) THEN StrLess(Tail(a), Tail(b))
    ELSE CharCode(Head(a)) < CharCode(Head(b))

\* Array.from(set).sort() on a set of distinct strings.
RECURSIVE SortStrings(_)
SortStrings(S) ==
    IF S = {} THEN <<>>
    ELSE LET m == CHOOSE x \in S : \A y \in S \ {x} : StrLess(x, y)
         IN <<m>> \o SortStrings(S \ {m})

parseVars(str) ==
    SortStrings({toUpperCase(m) : m \in Range(LetterRuns(str, <<>>))}
                    \ {Tok("T"), Tok("F")})

\* /^[a-z]+$/i.test(s) || s === '1' || s === '0'
isAtomString(s) ==
    \/ Len(s) >= 1 /\ \A i \in 1..Len(s) : s[i] \in Letters
    \/ s = Tok("1")
    \/ s = Tok("0")

\* Array.prototype.sort((a, b) => a.length - b.length): a stable sort.
RECURSIVE InsertByLength(_, _)
InsertByLength(sorted, s) ==
    IF sorted = <<>> THEN <<s>>
    ELSE IF Len(s) < Len(Head(sorted)) THEN <<s>> \o sorted
    ELSE <<Head(sorted)>> \o InsertByLength(Tail(sorted), s)

RECURSIVE SortByLength(_)
SortByLength(list) ==
    IF list = <<>> THEN <<>>
    ELSE InsertByLength(SortByLength(SubSeq(list, 1, Len(list) - 1)),
                        list[Len(list)])

\* The columns without the test s !== fullStr of the filter.
tableSubs_keepsFull(expr) ==
    LET tree == parseToAST(tokenize(expr))
        allSubs == getSubExpressions(tree)
    IN SortByLength(SelectSeq(allSubs, LAMBDA x : ~isAtomString(x)))

\* The sub-expression columns (lines 702-713).
tableSubs(expr) ==
    LET tree == parseToAST(tokenize(expr))
        allSubs == getSubExpressions(tree)
        full == toFullString(tree)
    IN SortByLength(SelectSeq(allSubs,
                              LAMBDA x : ~isAtomString(x) /\ x # full))

\* 1 << n on 32-bit integers: the shift count is taken modulo 32 and bit 31
\* is the sign.
ShiftLeftOne(n) ==
    LET k == n % 32 IN IF k = 31 THEN (-2147483647) - 1 ELSE 2 ^ k

\* (i >> shift) & 1 for a non-negative i.
BitAt(i, shift) == (i \div (2 ^ shift)) % 2

\* const shift = vars.length - 1 - idx, with idx counted from 0.
rowShift_lsbFirst(n, idx) == idx

rowShift(n, idx) == n - 1 - idx

IndexOf(list, x) == CHOOSE i \in 1..Len(list) : list[i] = x

\* The rows (lines 715-735): i counts down from count - 1 to 0.
tableRows(vs, sbs) ==
    LET n == Len(vs)
        count == ShiftLeftOne(n)
    IN [r \in 1..count |->
          LET i == count - r IN
          [inputs |-> [v \in Range(vs) |->
                         BitAt(i, rowShift(n, IndexOf(vs, v) - 1))],
           subVals |-> [x \in Range(sbs) |-> <<>>],
           finalVal |-> <<>>,
           statusSub |-> <<>>,
           statusFinal |-> "idle"]]

\* generateTable without the return of lines 696-698.
generateTable_noEarlyReturn(expr) ==
    LET vs == parseVars(expr)
        sbs == tableSubs(expr)
    IN [variables |-> vs, subExprs |-> sbs, rows |-> tableRows(vs, sbs)]

\* generateTable(expr): the three setters, as one record.
generateTable(expr) ==
    LET vs == parseVars(expr) IN
    IF Len(vs) = 0
    THEN [variables |-> <<>>, subExprs |-> <<>>, rows |-> <<>>]
    ELSE LET sbs == tableSubs(expr)
         IN [variables |-> vs, subExprs |-> sbs, rows |-> tableRows(vs, sbs)]

\* maxDepth of generateRestrictedFormula as handleGenerate calls it.
RestrictedMaxDepth == 3

tableVars == <<"P", "Q", "R">>

\* Longest formula handleGenerate is taken to produce, in characters.
MaxGenLen == 15

\* Every string generateRestrictedFormula(depth, 3) can return, over all
\* outcomes of Math.random, that has at most maxLen characters.
RECURSIVE RestrictedFormulas(_, _)
RestrictedFormulas(depth, maxLen) ==
    LET leaves == IF maxLen >= 1 THEN {Tok(tableVars[i]) : i \in 1..Len(tableVars)}
                  ELSE {}
        inner == RestrictedFormulas(depth + 1, maxLen - 4)
        negs == {<<SYMBOLS.NOT, " ", "(">> \o g \o <<")">> : g \in inner}
        bins == {<<"(">> \o lr[1] \o <<" ">> \o op \o <<" ">> \o lr[2] \o <<")">> :
                    lr \in {x \in inner \X inner : Len(x[1]) + Len(x[2]) + 5 <= maxLen},
                    op \in BinaryOps}
    IN IF maxLen < 1 THEN {}
       ELSE IF depth >= RestrictedMaxDepth THEN leaves
       ELSE IF depth > 0 THEN leaves \cup negs \cup bins
       ELSE negs \cup bins

\* Longest formula typed or inserted by hand, in characters.
MaxTableLen == 4

TableChars == {"P", "Q", "p", "T", "1", SYMBOLS.AND, SYMBOLS.NOT, "(", ")", " "}

\* The keys of LogicKeyboard, among the characters of the model.
KeyboardChars == TableChars \ {"p", "1", " "}

TableIdle ==
    /\ tokens = <<>>
    /\ ast = null
    /\ fullStr = <<>>
    /\ subs = <<>>
    /\ values = <<>>
    /\ solved = FALSE
    /\ history = <<>>
    /\ msg = ""
    /\ SyntaxIdle

TableFrame ==
    /\ UNCHANGED <<tokens, ast, fullStr, subs, values, solved, history, msg>>
    /\ SyntaxFrame

\* The state useState gives SatisfactionSection, before its mount effect.
InitTable ==
    /\ pc = "mount"
    /\ formula = <<>>
    /\ variables = <<>>
    /\ subExprs = <<>>
    /\ rows = <<>>
    /\ TableIdle

SetTable(expr) ==
    LET t == generateTable(expr) IN
    /\ formula' = expr
    /\ variables' = t.variables
    /\ subExprs' = t.subExprs
    /\ rows' = t.rows

\* handleGenerate, run by the mount effect (line 821).  A later click on the
\* button leads to the same states.
handleGenerate ==
    /\ pc = "mount"
    /\ \E f \in {g \in RestrictedFormulas(0, MaxGenLen) : Len(g) >= 5} :
          SetTable(f)
    /\ pc' = "table"
    /\ TableFrame

\* handleManualChange(e.target.value), for the edits of one keystroke at the
\* end of the input: a character typed or the last character deleted.
handleManualChange ==
    /\ pc = "table"
    /\ \/ /\ Len(formula) < MaxTableLen
          /\ \E c \in TableChars : SetTable(formula \o <<c>>)
       \/ /\ Len(formula) >= 1
          /\ SetTable(SubSeq(formula, 1, Len(formula) - 1))
    /\ pc' = pc
    /\ TableFrame

handleInsert ==
    /\ pc = "table"
    /\ Len(formula) < MaxTableLen
    /\ \E char \in KeyboardChars : SetTable(formula \o <<char>>)
    /\ pc' = pc
    /\ TableFrame

NextTable == handleGenerate \/ handleManualChange \/ handleInsert

SpecTable == InitTable /\ [][NextTable]_vars

-----------------------------------------------------------------------------
(* Grading of a truth table: updateRow and checkTable                       *)

\* Longest formula of a graded table, in characters.
MaxGradeLen == 4

\* Most cells of a table the learner has filled in.
MaxFilled == 1

GradeChars == {"P", SYMBOLS.NOT, SYMBOLS.AND, "(", ")"}

\* What the learner can type into a cell: updateRow ignores all but '0', '1'
\* and the empty string.
CellInputs == {Tok("0"), Tok("1"), <<>>, Tok("2")}

\* The cells of a row: its final column and one per sub-expression column.
rowCells(sbs) == {<<"final", <<>> >>} \cup {<<"sub", x>> : x \in Range(sbs)}

\* The cells of the table that are not blank.
filledCells(rws, sbs) ==
    {rc \in (1..Len(rws)) \X rowCells(sbs) :
        IF rc[2][1] = "final" THEN rws[rc[1]].finalVal # <<>>
        ELSE rws[rc[1]].subVals[rc[2][2]] # <<>>}

\* The section with the table of a formula typed by hand, nothing filled in.
InitGrade ==
    /\ pc = "table"
    /\ \E f \in SeqsUpTo(GradeChars, MaxGradeLen) :
          \E t \in {generateTable(f)} :
             /\ formula = f
             /\ variables = t.variables
             /\ subExprs = t.subExprs
             /\ rows = t.rows
    /\ TableIdle

\* [...obj, [key]: val] on an object modelled as a function.
WithKey(obj, key, val) ==
    [k \in DOMAIN obj \cup {key} |-> IF k = key THEN val ELSE obj[k]]

\* The row updateRow(rowIdx, type, key, val) writes.
updatedRow(row, type, key, val) ==
    IF type = "sub"
    THEN [row EXCEPT !.subVals = WithKey(row.subVals, key, val),
                     !.statusSub = WithKey(row.statusSub, key, "idle")]
    ELSE [row EXCEPT !.finalVal = val, !.statusFinal = "idle"]

\* updateRow(rowIdx, type, key, val), for the entries made before the table
\* is graded: checkTable overwrites every status, so what a later grading
\* gives depends on the entries only.
updateRow ==
    /\ pc = "table"
    /\ \E rowIdx \in 1..Len(rows), val \in CellInputs,
          cell \in rowCells(subExprs) :
          IF val # Tok("0") /\ val # Tok("1") /\ val # <<>>
          THEN UNCHANGED <<rows, pc>>
          ELSE /\ rows' = [rows EXCEPT
                             ![rowIdx] = updatedRow(rows[rowIdx], cell[1],
                                                    cell[2], val)]
               /\ Cardinality(filledCells(rows', subExprs)) <= MaxFilled
               /\ pc' = "table"
    /\ UNCHANGED <<formula, variables, subExprs>>
    /\ TableFrame

\* boolInputs[k.toUpperCase()] = r.inputs[k] === 1
boolInputs(inputs) ==
    [k \in {toUpperCase(x) : x \in DOMAIN inputs} |->
        \E x \in DOMAIN inputs : toUpperCase(x) = k /\ inputs[x] = 1]

bitString(b) == IF b THEN Tok("1") ELSE Tok("0")

\* statusSub[sub] = r.subVals[sub] === expSub ? 'correct' : 'error'
gradeSub_ofFormula(f, sub, r) ==
    IF r.subVals[sub] = bitString(solveProposition(f, boolInputs(r.inputs)))
    THEN "correct" ELSE "error"

gradeSub(f, sub, r) ==
    IF r.subVals[sub] = bitString(solveProposition(sub, boolInputs(r.inputs)))
    THEN "correct" ELSE "error"

\* The row checkTable makes of row r.
checkedRow(r) ==
    [r EXCEPT
       !.statusFinal =
           IF r.finalVal = bitString(solveProposition(formula, boolInputs(r.inputs)))
           THEN "correct" ELSE "error",
       !.statusSub = [sub \in Range(subExprs) |-> gradeSub(formula, sub, r)]]

checkTable ==
    /\ pc \in {"table", "graded"}
    /\ rows' = [i \in 1..Len(rows) |-> checkedRow(rows[i])]
    /\ pc' = "graded"
    /\ UNCHANGED <<formula, variables, subExprs>>
    /\ TableFrame

NextGrade == updateRow \/ checkTable

SpecGrade == InitGrade /\ [][NextGrade]_vars

-----------------------------------------------------------------------------
(* Strict reduction session (EvaluationSection)                             *)

evaluateOp(left, op, right) ==
    LET l == left = Tok("1")
        r == right = Tok("1")
        bit(b) == IF b THEN Tok("1") ELSE Tok("0")
    IN IF op = AND THEN bit(l /\ r)
       ELSE IF op = OR THEN bit(l \/ r)
       ELSE IF op = IMP THEN bit(~l \/ r)
       ELSE IF op = IFF THEN bit(l = r)
       ELSE Tok("0")

\* An evaluateNot that returns its operand.
evaluateNot_identity(val) == val

evaluateNot(val) == IF val = Tok("1") THEN Tok("0") ELSE Tok("1")

\* String.prototype.trim on blanks.
RECURSIVE TrimLeft(_)
TrimLeft(str) ==
    IF str # <<>> /\ Head(str) = " " THEN TrimLeft(Tail(str)) ELSE str

RECURSIVE TrimRight(_)
TrimRight(str) ==
    IF str # <<>> /\ str[Len(str)] = " "
    THEN TrimRight(SubSeq(str, 1, Len(str) - 1)) ELSE str

trim(str) == TrimRight(TrimLeft(str))

\* str.replace(/\(/g, ' ( ').replace(/\)/g, ' ) ')
RECURSIVE PadParens(_)
PadParens(str) ==
    IF str = <<>> THEN <<>>
    ELSE IF Head(str) \in {"(", ")"}
         THEN <<" ", Head(str), " ">> \o PadParens(Tail(str))
         ELSE <<Head(str)>> \o PadParens(Tail(str))

\* split(/\s+/) on a trimmed, non-empty string.
RECURSIVE SplitBlanks(_, _)
SplitBlanks(str, cur) ==
    LET flush == IF cur = <<>> THEN <<>> ELSE <<cur>> IN
    IF str = <<>> THEN flush
    ELSE IF Head(str) = " " THEN flush \o SplitBlanks(Tail(str), <<>>)
         ELSE SplitBlanks(Tail(str), Append(cur, Head(str)))

\* getTokens: an empty string gives no token; a blank one gives the single
\* empty token that ''.split(/\s+/) returns.
getTokens(str) ==
    IF str = <<>> THEN <<>>
    ELSE LET t == trim(PadParens(str))
         IN IF t = <<>> THEN << <<>> >> ELSE SplitBlanks(t, <<>>)

\* One pass of clean.replace(/\(\s*([01])\s*\)/g, '$1').
RECURSIVE replaceWrapped(_)
replaceWrapped(str) ==
    IF str = <<>> THEN <<>>
    ELSE IF Head(str) = "("
         THEN LET a == TrimLeft(Tail(str))
                  b == IF a = <<>> THEN <<>> ELSE TrimLeft(Tail(a))
              IN IF a # <<>> /\ Head(a) \in {"0", "1"} /\ b # <<>>
                    /\ Head(b) = ")"
                 THEN <<Head(a)>> \o replaceWrapped(Tail(b))
                 ELSE <<"(">> \o replaceWrapped(Tail(str))
         ELSE <<Head(str)>> \o replaceWrapped(Tail(str))

\* The while (changed) loop of addToHistory.
normalize_onePass(str) == replaceWrapped(str)

RECURSIVE normalize(_)
normalize(str) ==
    LET temp == replaceWrapped(str)
    IN IF temp = str THEN str ELSE normalize(temp)

\* setHistory with the last entry replaced instead of one appended.
addToHistory_replaceLast(newStr) ==
    history' = [history EXCEPT ![Len(history)] =
                   [step |-> Len(history), content |-> normalize(newStr),
                    type |-> "reduction"]]

addToHistory(newStr) ==
    history' = Append(history, [step |-> Len(history),
                                content |-> normalize(newStr),
                                type |-> "reduction"])

\* The advisory message of an ordering violation (line 560), abridged.
OrderMsg == "Orden incorrecto"

isVal(v) == v = Tok("1") \/ v = Tok("0")

\* tokens[i] with i counted from 1; undefined (no token) outside the list.
undefined == <<"undefined", "undefined">>

At(toks, i) == IF i \in 1..Len(toks) THEN toks[i] ELSE undefined

\* The candidates of handleInteraction (lines 543-552), as positions.
candidates(toks) ==
    {i \in 1..Len(toks) :
        \/ toks[i] = NOT /\ isVal(At(toks, i + 1))
        \/ /\ toks[i] \in {AND, OR, IMP, IFF}
           /\ isVal(At(toks, i - 1))
           /\ isVal(At(toks, i + 1))}

Max(S) == CHOOSE x \in S : \A y \in S : y <= x

\* if (clickedPrec < maxPrec): the move is rejected.
isOrderViolation_never(clickedPrec, maxPrec) == clickedPrec > maxPrec

isOrderViolation(clickedPrec, maxPrec) == clickedPrec < maxPrec

currentStep == history[Len(history)]

currentTokens == getTokens(currentStep.content)

isSolved ==
    Len(currentTokens) = 1 /\ isVal(currentTokens[1])

\* A render-time test that makes every NOT clickable.
interactable_anyNot(toks, i) ==
    \/ toks[i] = NOT
    \/ /\ toks[i] \in {AND, OR, IMP, IFF}
       /\ isVal(At(toks, i - 1))
       /\ isVal(At(toks, i + 1))

\* The render-time test that makes a token clickable (lines 635-638).
interactable(toks, i) ==
    \/ toks[i] = NOT /\ isVal(At(toks, i + 1))
    \/ /\ toks[i] \in {AND, OR, IMP, IFF}
       /\ isVal(At(toks, i - 1))
       /\ isVal(At(toks, i + 1))

\* The variables getRandomVar draws from, in the model.
reduceVars == <<"P", "Q">>

StructuredMaxDepth == 4

MinProblemLen == 15

\* Longest formula of a reduction problem, in characters.
MaxRedLen == 18

\* Every string generateStructuredFormula(depth, 4) can return, over all
\* outcomes of Math.random, that has at most maxLen characters.
RECURSIVE StructuredFormulas(_, _)
StructuredFormulas(depth, maxLen) ==
    LET leaves == {Tok(reduceVars[i]) : i \in 1..Len(reduceVars)}
        inner == StructuredFormulas(depth + 1, maxLen - 4)
        negs == {<<SYMBOLS.NOT, " ", "(">> \o g \o <<")">> : g \in inner}
        bins == {<<"(">> \o lr[1] \o <<" ">> \o op \o <<" ">> \o lr[2] \o <<")">> :
                    lr \in {x \in inner \X inner : Len(x[1]) + Len(x[2]) + 5 <= maxLen},
                    op \in BinaryOps}
    IN IF maxLen < 1 THEN {}
       ELSE IF depth >= StructuredMaxDepth THEN leaves
       ELSE IF depth > 0 THEN leaves \cup negs \cup bins
       ELSE negs \cup bins

\* The formulas the loop while (formula.length < 15) of generate can leave,
\* one for each way of naming the variables: the first variable is P.
ReduceFormulas ==
    {f \in StructuredFormulas(0, MaxRedLen) :
        /\ ~(Len(f) < MinProblemLen)
        /\ SelectSeq(f, LAMBDA c : c \in Range(reduceVars))[1] = reduceVars[1]}

\* formula.match(/[PQRSTU]/g), as a set.
varsFound(str) == {str[i] : i \in {j \in 1..Len(str) : str[j] \in Range(VARS)}}

ReduceIdle ==
    /\ tokens = <<>>
    /\ ast = null
    /\ fullStr = <<>>
    /\ subs = <<>>
    /\ formula = <<>>
    /\ values = <<>>
    /\ solved = FALSE
    /\ subExprs = <<>>
    /\ rows = <<>>
    /\ SyntaxIdle

ReduceFrame ==
    /\ UNCHANGED <<pc, tokens, ast, fullStr, subs, formula, values, solved,
                   subExprs, rows>>
    /\ SyntaxFrame

\* The state the mount effect leaves by generate(): a generated formula and
\* '1' or '0' for each variable found in it.
InitReduce ==
    /\ pc = "session"
    /\ \E f \in ReduceFormulas :
          /\ history = <<[step |-> 0, content |-> f, type |-> "formula"]>>
          /\ variables \in [varsFound(f) -> {"1", "0"}]
    /\ msg = ""
    /\ ReduceIdle

\* next.replace(new RegExp(k, 'g'), variables[k]) for every key k: the keys
\* are single letters and the values digits, so the replacements compose to
\* one character-wise substitution.
substitute(str, vs) ==
    [i \in 1..Len(str) |-> IF str[i] \in DOMAIN vs THEN vs[str[i]] ELSE str[i]]

\* handleSubstitute without its test of history.length.
handleSubstitute_anyTime ==
    /\ pc = "session"
    /\ Len(history) >= 1
    /\ history' = Append(history,
                         [step |-> 1,
                          content |-> substitute(history[1].content, variables),
                          type |-> "substituted"])
    /\ UNCHANGED <<variables, msg>>
    /\ ReduceFrame

handleSubstitute ==
    /\ pc = "session"
    /\ ~(Len(history) = 0 \/ Len(history) > 1)
    /\ history' = Append(history,
                         [step |-> 1,
                          content |-> substitute(history[1].content, variables),
                          type |-> "substituted"])
    /\ UNCHANGED <<variables, msg>>
    /\ ReduceFrame

\* handleInteraction with tokens.slice(idx + 1) as postPart of the NOT
\* branch: the operand of the NOT is kept.
interaction_keepsOperand(idx, toks) ==
    LET token == At(toks, idx)
        prev == At(toks, idx - 1)
        next == At(toks, idx + 1)
        cands == candidates(toks)
        maxPrec == Max({PrecedenceOf(toks[i]) : i \in cands})
        clickedPrec == PrecedenceOf(token)
        glue(pre, res, post) ==
            trim(Join(pre, <<" ">>) \o <<" ">> \o res \o <<" ">>
                 \o Join(post, <<" ">>))
    IN IF cands = {} THEN [msg |-> "", added |-> <<>>]
       ELSE IF isOrderViolation(clickedPrec, maxPrec)
       THEN [msg |-> OrderMsg, added |-> <<>>]
       ELSE IF token = NOT
       THEN [msg |-> "",
             added |-> <<glue(Slice(toks, 0, idx - 1), evaluateNot(next),
                              Slice(toks, idx, Len(toks)))>>]
       ELSE [msg |-> "",
             added |-> <<glue(Slice(toks, 0, idx - 2),
                              evaluateOp(prev, token, next),
                              Slice(toks, idx + 1, Len(toks)))>>]

\* What handleInteraction(idx, tokens) asks for, idx counted from 1: the
\* message it sets and the strings it passes to addToHistory (none or one).
interaction(idx, toks) ==
    LET token == At(toks, idx)
        prev == At(toks, idx - 1)
        next == At(toks, idx + 1)
        cands == candidates(toks)
        maxPrec == Max({PrecedenceOf(toks[i]) : i \in cands})
        clickedPrec == PrecedenceOf(token)
        glue(pre, res, post) ==
            trim(Join(pre, <<" ">>) \o <<" ">> \o res \o <<" ">>
                 \o Join(post, <<" ">>))
    IN IF cands = {} THEN [msg |-> "", added |-> <<>>]
       ELSE IF isOrderViolation(clickedPrec, maxPrec)
       THEN [msg |-> OrderMsg, added |-> <<>>]
       ELSE IF token = NOT
       THEN [msg |-> "",
             added |-> <<glue(Slice(toks, 0, idx - 1), evaluateNot(next),
                              Slice(toks, idx + 1, Len(toks)))>>]
       ELSE [msg |-> "",
             added |-> <<glue(Slice(toks, 0, idx - 2),
                              evaluateOp(prev, token, next),
                              Slice(toks, idx + 1, Len(toks)))>>]

\* A click on the token at position idx of the current state; the token is
\* clickable only while the state is not solved, the history has more than
\* one entry and the token is interactable (lines 631-643).
handleInteraction(idx) ==
    /\ pc = "session"
    /\ ~isSolved
    /\ Len(history) > 1
    /\ \E toks \in {currentTokens} :
          /\ idx \in 1..Len(toks)
          /\ interactable(toks, idx)
          /\ \E r \in {interaction(idx, toks)} :
                /\ msg' = r.msg
                /\ IF r.added = <<>> THEN UNCHANGED history
                   ELSE addToHistory(r.added[1])
    /\ UNCHANGED variables
    /\ ReduceFrame

NextReduce ==
    \/ handleSubstitute
    \/ \E idx \in 1..Len(currentTokens) : handleInteraction(idx)

SpecReduce == InitReduce /\ [][NextReduce]_vars

-----------------------------------------------------------------------------
(* Syntax section in free mode (SyntaxSection with mode === 'custom')       *)

\* The messages of setErrorMsg, abridged: of handleCustomCheck (lines 347,
\* 351) and of check in training mode (lines 374, 376, 378).
LooseMsg == "Sintaxis valida, agrupacion no estricta"

SyntaxErrorMsg == "Error de sintaxis"

TrainingMsgs ==
    {"Parentesis desbalanceados", "Has modificado", "Agrupacion incorrecta"}

\* Longest input typed in free mode, in characters.
MaxInputLen == 4

\* The characters typed into the input, and those of them LogicKeyboard has.
InputChars == {"P", "Q", "E", "R", SYMBOLS.NOT, SYMBOLS.AND, "(", ")", " "}

InputKeys == InputChars \ {"E", " "}

SyntaxOthersIdle ==
    /\ tokens = <<>>
    /\ ast = null
    /\ fullStr = <<>>
    /\ subs = <<>>
    /\ formula = <<>>
    /\ values = <<>>
    /\ solved = FALSE
    /\ variables = <<>>
    /\ subExprs = <<>>
    /\ rows = <<>>
    /\ history = <<>>
    /\ msg = ""
    /\ deepest = 0

SyntaxOthersFrame ==
    UNCHANGED <<tokens, ast, fullStr, subs, formula, values, solved,
                variables, subExprs, rows, history, msg, deepest>>

\* The click on "Modo Libre" (line 424): the input is emptied and the status
\* reset; the message is the one training mode left.
setModeCustom ==
    /\ mode' = "custom"
    /\ input' = <<>>
    /\ status' = "idle"
    /\ UNCHANGED errorMsg
    /\ pc' = "editing"
    /\ SyntaxOthersFrame

\* The section right after the click on "Modo Libre".
InitSyntax ==
    /\ pc = "editing"
    /\ mode = "custom"
    /\ input = <<>>
    /\ status = "idle"
    /\ errorMsg \in {""} \cup TrainingMsgs
    /\ SyntaxOthersIdle

\* onChange of the input (line 448), for the edits of one keystroke at the
\* end: a character typed or the last character deleted.
onChange ==
    /\ mode = "custom"
    /\ \/ /\ Len(input) < MaxInputLen
          /\ \E c \in InputChars : input' = Append(input, c)
       \/ /\ Len(input) >= 1
          /\ input' = SubSeq(input, 1, Len(input) - 1)
    /\ status' = "idle"
    /\ errorMsg' = ""
    /\ pc' = "editing"
    /\ UNCHANGED mode
    /\ SyntaxOthersFrame

\* handleInsert of SyntaxSection (lines 385-403) with an empty selection at
\* any cursor position.
syntaxHandleInsert ==
    /\ mode = "custom"
    /\ Len(input) < MaxInputLen
    /\ \E char \in InputKeys, start \in 0..Len(input) :
          input' = SubSeq(input, 1, start) \o <<char>>
                   \o SubSeq(input, start + 1, Len(input))
    /\ status' = "idle"
    /\ errorMsg' = ""
    /\ pc' = "editing"
    /\ UNCHANGED mode
    /\ SyntaxOthersFrame

\* handleCustomCheck: the status and message it sets.  The tree's type is
\* compared with 'ERR'; toFullString and the comparison run otherwise.
handleCustomCheckResult(str) ==
    LET a == parseToAST(tokenize(str))
    IN IF a.type = "ERR"
       THEN [status |-> "error", errorMsg |-> SyntaxErrorMsg]
       ELSE IF RemoveWhitespace(str) = RemoveWhitespace(toFullString(a))
       THEN [status |-> "correct", errorMsg |-> ""]
       ELSE [status |-> "custom_valid_but_loose", errorMsg |-> LooseMsg]

\* check (lines 359-363) in free mode: handleCustomCheck and return.
check ==
    /\ mode = "custom"
    /\ \E r \in {handleCustomCheckResult(input)} :
          /\ status' = r.status
          /\ errorMsg' = r.errorMsg
    /\ pc' = "checked"
    /\ UNCHANGED <<input, mode>>
    /\ SyntaxOthersFrame

NextSyntax == setModeCustom \/ onChange \/ syntaxHandleInsert \/ check

SpecSyntax == InitSyntax /\ [][NextSyntax]_vars

-----------------------------------------------------------------------------
(* handleInteraction as a function of the token list it is given: clicks on *)
(* literal-only token lists that need not come from a generated formula.    *)

\* Longest token list handed to handleInteraction, in tokens.
MaxClickLen == 5

\* The well-formed literal-only token lists of at most n tokens: a literal, a
\* negated list, a parenthesized list, two lists around a binary connective.
RECURSIVE LiteralLists(_)
LiteralLists(n) ==
    IF n < 1 THEN {}
    ELSE {<<Tok("0")>>, <<Tok("1")>>}
         \cup {<<NOT>> \o x : x \in LiteralLists(n - 1)}
         \cup {<<LP>> \o x \o <<RP>> : x \in LiteralLists(n - 2)}
         \cup UNION {{x \o <<op>> \o y :
                         x \in LiteralLists(k),
                         y \in LiteralLists(n - 1 - k),
                         op \in BinaryOps} : k \in 1..(n - 2)}

InitClick ==
    /\ pc = "literals"
    /\ tokens \in LiteralLists(MaxClickLen)
    /\ msg = ""
    /\ ast = null
    /\ fullStr = <<>>
    /\ subs = <<>>
    /\ formula = <<>>
    /\ values = <<>>
    /\ solved = FALSE
    /\ variables = <<>>
    /\ subExprs = <<>>
    /\ rows = <<>>
    /\ history = <<>>
    /\ SyntaxIdle

\* handleInteraction(idx, tokens) on a clickable token, followed by the
\* getTokens of the next render: the tokens of the string addToHistory
\* stores, or the same tokens and the advisory message.
click(idx) ==
    /\ pc = "literals"
    /\ idx \in 1..Len(tokens)
    /\ ~(Len(tokens) = 1 /\ isVal(tokens[1]))
    /\ interactable(tokens, idx)
    /\ \E r \in {interaction(idx, tokens)} :
          /\ msg' = r.msg
          /\ tokens' = IF r.added = <<>> THEN tokens
                       ELSE getTokens(normalize(r.added[1]))
    /\ UNCHANGED <<pc, ast, fullStr, subs, formula, values, solved, variables,
                   subExprs, rows, history>>
    /\ SyntaxFrame

NextClick == \E idx \in 1..MaxClickLen : click(idx)

SpecClick == InitClick /\ [][NextClick]_vars

-----------------------------------------------------------------------------
(* The random formula generators (App.js lines 35-71) and the parse of what *)
(* they return.  Math.random is a choice over every outcome.                *)

\* The variables getRandomVar draws from, in the model.
genVars == <<"P", "T">>

\* getRandomVar(): every value it can return.
getRandomVar == {Tok(genVars[i]) : i \in 1..Len(genVars)}

\* Math.random() < 0.3 ? `NOT ${getRandomVar()}` : getRandomVar()
randomTerm == getRandomVar \cup {<<SYMBOLS.NOT, " ">> \o v : v \in getRandomVar}

\* A generateFlatFormula whose last iteration pushes the operator only.
RECURSIVE generateFlatFormula_danglingOp(_)
generateFlatFormula_danglingOp(length) ==
    IF length = 0 THEN randomTerm
    ELSE {f \o <<" ">> \o op : f \in generateFlatFormula_danglingOp(length - 1),
                               op \in BinaryOps}

\* generateFlatFormula(length): every string it can return.  The array of
\* terms and operators is joined with single blanks.
RECURSIVE generateFlatFormula(_)
generateFlatFormula(length) ==
    IF length = 0 THEN randomTerm
    ELSE {f \o <<" ">> \o op \o <<" ">> \o t :
             f \in generateFlatFormula(length - 1),
             op \in BinaryOps,
             t \in randomTerm}

\* Math.floor(Math.random() * 2) + 3, the lengths newProblem asks for.
FlatLengths == {3, 4}

\* Longest structured formula generated, in characters.
MaxStructLen == 17

\* generateStructuredFormula(depth, maxDepth): every string of at most maxLen
\* characters it can return, each with the largest depth a call of the
\* recursion was made with.
RECURSIVE generateStructuredFormula(_, _, _)
generateStructuredFormula(depth, maxDepth, maxLen) ==
    LET leaves == {[str |-> v, deepest |-> depth] : v \in getRandomVar}
        inner == generateStructuredFormula(depth + 1, maxDepth, maxLen - 4)
        negs == {[str |-> <<SYMBOLS.NOT, " ", "(">> \o g.str \o <<")">>,
                  deepest |-> g.deepest] : g \in inner}
        bins == {[str |-> <<"(">> \o lr[1].str \o <<" ">> \o op \o <<" ">>
                          \o lr[2].str \o <<")">>,
                  deepest |-> Max({lr[1].deepest, lr[2].deepest})] :
                    lr \in {x \in inner \X inner :
                               Len(x[1].str) + Len(x[2].str) + 5 <= maxLen},
                    op \in BinaryOps}
    IN IF maxLen < 1 THEN {}
       ELSE IF depth >= maxDepth THEN leaves
       ELSE IF depth > 0 THEN leaves \cup negs \cup bins
       ELSE negs \cup bins

InitGen ==
    /\ pc = "mount"
    /\ SyntaxOthersIdle
    /\ SyntaxIdle

\* A call generateFlatFormula(length), as newProblem makes it (line 320).
callFlat ==
    /\ pc = "mount"
    /\ \E length \in FlatLengths :
          formula' \in generateFlatFormula(length)
    /\ pc' = "flat"
    /\ UNCHANGED <<tokens, ast, fullStr, subs, values, solved, variables,
                   subExprs, rows, history, msg, deepest>>
    /\ SyntaxFrame

\* A call generateStructuredFormula(0, 4), as generate makes it (line 509).
callStructured ==
    /\ pc = "mount"
    /\ \E g \in generateStructuredFormula(0, StructuredMaxDepth, MaxStructLen) :
          /\ formula' = g.str
          /\ deepest' = g.deepest
    /\ pc' = "structured"
    /\ UNCHANGED <<tokens, ast, fullStr, subs, values, solved, variables,
                   subExprs, rows, history, msg, input, status, errorMsg, mode>>

\* generate (lines 506-517), for formulas of at most maxLen characters: the
\* loop calls the generator until the formula has 15 characters, then the
\* three setters start the session.  It is run by the mount effect (line
\* 519) and by the button "Siguiente Problema", which is rendered when the
\* current state is solved (lines 658-668).
generateWithin(maxLen) ==
    /\ \/ pc = "mount"
       \/ pc = "session" /\ Len(history) >= 1 /\ isSolved
    /\ \E g \in generateStructuredFormula(0, StructuredMaxDepth, maxLen) :
          /\ ~(Len(g.str) < MinProblemLen)
          /\ history' = <<[step |-> 0, content |-> g.str, type |-> "formula"]>>
          /\ variables' \in [varsFound(g.str) -> {"1", "0"}]
          /\ deepest' = g.deepest
    /\ msg' = ""
    /\ pc' = "session"
    /\ UNCHANGED <<tokens, ast, fullStr, subs, formula, values, solved,
                   subExprs, rows, input, status, errorMsg, mode>>

generate == generateWithin(MaxStructLen)

\* The generated string is tokenized and parsed.
parseGenerated ==
    /\ pc \in {"flat", "structured"}
    /\ tokens' = tokenize(formula)
    /\ ast' = parseToAST(tokens')
    /\ pc' = "parsed"
    /\ UNCHANGED <<fullStr, subs, formula, values, solved, variables,
                   subExprs, rows, history, msg>>
    /\ SyntaxFrame

NextGen == callFlat \/ callStructured \/ generate \/ parseGenerated

SpecGen == InitGen /\ [][NextGen]_vars

-----------------------------------------------------------------------------
(* A reduction session from the mount of EvaluationSection on, problem      *)
(* after problem.                                                           *)

\* Longest formula of a problem in these sessions, in characters.
MaxSessionLen == 15

\* With an empty history the section renders a spinner only (line 588).
NextSession ==
    \/ generateWithin(MaxSessionLen)
    \/ handleSubstitute
    \/ /\ history # <<>>
       /\ \E idx \in 1..Len(currentTokens) : handleInteraction(idx)

SpecSession == InitGen /\ [][NextSession]_vars

-----------------------------------------------------------------------------
(* Vocabulary of the claims about the parser                                *)

P == Tok("P")
Q == Tok("Q")
R == Tok("R")

\* An atom: a non-empty token holding no connective glyph, no parenthesis
\* and no blank.
IsAtomToken(t) ==
    /\ Len(t) >= 1
    /\ \A i \in 1..Len(t) : t[i] \notin {"~", "&", "|", ">", "=", "(", ")", " "}

\* Well-formed token sequences: E ::= atom | NOT E | E op E | ( E ).
RECURSIVE IsWellFormed(_)
IsWellFormed(ts) ==
    LET n == Len(ts) IN
    \/ n = 1 /\ IsAtomToken(ts[1])
    \/ n >= 2 /\ ts[1] = NOT /\ IsWellFormed(Tail(ts))
    \/ n >= 3 /\ ts[1] = LP /\ ts[n] = RP /\ IsWellFormed(SubSeq(ts, 2, n - 1))
    \/ \E i \in 2..(n - 1) :
          /\ ts[i] \in BinaryOps
          /\ IsWellFormed(SubSeq(ts, 1, i - 1))
          /\ IsWellFormed(SubSeq(ts, i + 1, n))

\* The ranks as the claims give them: IFF=1 < IMPLIES=2 < OR=3 < AND=4.
ClaimRank(t) ==
    CASE t = IFF -> 1 [] t = IMP -> 2 [] t = OR -> 3 [] t = AND -> 4

\* Parenthesis balance of position i: closing minus opening parentheses to
\* its right.  In a balanced slice this is the nesting depth of position i.
DepthAt(ts, i) ==
    Cardinality({j \in (i + 1)..Len(ts) : ts[j] = RP})
    - Cardinality({j \in (i + 1)..Len(ts) : ts[j] = LP})

DepthZeroBinary(ts) ==
    {i \in 1..Len(ts) : ts[i] \in BinaryOps /\ DepthAt(ts, i) = 0}

RECURSIVE Nodes(_)
Nodes(n) ==
    IF n = null THEN {}
    ELSE IF n.type = "ATOM" THEN {n}
    ELSE {n} \cup Nodes(n.left) \cup Nodes(n.right)

RECURSIVE NegationOnLeftSpine(_)
NegationOnLeftSpine(n) ==
    \/ n.type = "NOT"
    \/ n.type = "BIN" /\ NegationOnLeftSpine(n.left)

RECURSIVE LeftmostLeaf(_)
LeftmostLeaf(n) == IF n.type = "ATOM" THEN n ELSE LeftmostLeaf(n.left)

Parsed == pc \in {"parsed", "rendered", "collected"}

Rendered == pc \in {"rendered", "collected"}

-----------------------------------------------------------------------------
\* C1: for every well-formed token sequence, the canonical string of its
\* parse, tokenized, parsed and rendered again, is the same string.
C1_RenderFixedPoint ==
    (Rendered /\ IsWellFormed(tokens))
        => toFullString(parseToAST(tokenize(fullStr))) = fullStr

\* NOT ( P ) has been parsed and rendered as (~ P).
C1_Witness ==
    /\ pc = "rendered"
    /\ tokens = <<NOT, LP, P, RP>>
    /\ fullStr = <<"(", "~", " ", "P", ")">>

C8_SubExpressionsExact ==
    /\ pc = "collected"
         => /\ Range(subs) = {toFullString(n) :
                                n \in {m \in Nodes(ast) : m.type # "ATOM"}}
            /\ Len(subs) = Cardinality(Range(subs))
    /\ (pc = "collected" /\ tokens = <<LP, P, AND, Q, RP>>)
         => subs = << <<"(", "P", " ", "&", " ", "Q", ")">> >>

\* ~ P & ~ P has been collected: its two identical Negation nodes give one
\* entry next to the entry of the whole formula.
C8_Witness ==
    /\ pc = "collected"
    /\ tokens = <<NOT, P, AND, NOT, P>>
    /\ Len(subs) = 2
    /\ <<"(", "~", " ", "P", ")">> \in Range(subs)

RECURSIVE WellShaped(_)
WellShaped(n) ==
    /\ n.type \in {"ATOM", "NOT", "BIN"}
    /\ n.type = "ATOM" => n.left = null /\ n.right = null
    /\ n.type = "NOT" => n.left # null /\ n.right = null /\ WellShaped(n.left)
    /\ n.type = "BIN" => /\ n.left # null /\ n.right # null
                         /\ WellShaped(n.left) /\ WellShaped(n.right)

\* C9: parseToAST returns, for every token sequence, a node of type ATOM, NOT
\* or BIN in which every NOT node has one child and every BIN node has two.
C9_ParseTotal == Parsed => WellShaped(ast)

\* The malformed P & has been parsed: a Binary node whose right operand is
\* the parse-error atom.
C9_Witness ==
    /\ pc = "parsed"
    /\ tokens = <<P, AND>>
    /\ ast = ASTNode("BIN", AND, ASTNode("ATOM", P, null, null),
                     ASTNode("ATOM", ERR, null, null))

-----------------------------------------------------------------------------
(* Vocabulary of the claims about the evaluator                             *)

\* The value of a one-character operand: the literals 1 and 0, or the
\* variables P and Q as the assignment gives them.
IsOperand(c) == c \in {"0", "1", "P", "Q"}

OperandValue(c) ==
    IF c = "1" THEN TRUE
    ELSE IF c = "0" THEN FALSE
    ELSE Tok(c) \in DOMAIN values /\ values[Tok(c)]

\* The standard truth tables, each as the set of operand pairs it maps to
\* true.
TrueRows(c) ==
    CASE c = "&" -> {<<TRUE, TRUE>>}
      [] c = "|" -> {<<TRUE, TRUE>>, <<TRUE, FALSE>>, <<FALSE, TRUE>>}
      [] c = ">" -> {<<TRUE, TRUE>>, <<FALSE, TRUE>>, <<FALSE, FALSE>>}
      [] c = "=" -> {<<TRUE, TRUE>>, <<FALSE, FALSE>>}

\* C4: a formula `a op b` evaluates by the standard truth table of op on the
\* values of a and b, and `~ a` to the inverse of the value of a.
C4_TruthTables ==
    /\ (pc = "solved" /\ Len(formula) = 3 /\ IsOperand(formula[1])
          /\ formula[2] \in {"&", "|", ">", "="} /\ IsOperand(formula[3]))
         => (solved <=> <<OperandValue(formula[1]), OperandValue(formula[3])>>
                            \in TrueRows(formula[2]))
    /\ (pc = "solved" /\ Len(formula) = 2 /\ formula[1] = "~"
          /\ IsOperand(formula[2]))
         => (solved <=> ~OperandValue(formula[2]))

\* P > Q has been solved under P false, Q false: vacuously true.
C4_Witness ==
    /\ pc = "solved"
    /\ formula = <<"P", ">", "Q">>
    /\ values = (Tok("P") :> FALSE) @@ (Tok("Q") :> FALSE)
    /\ solved = TRUE

\* C10: a formula whose tokens are not well formed is solved to false under
\* every assignment.
C10_InvalidIsFalse ==
    (pc = "solved" /\ ~IsWellFormed(tokenize(formula))) => solved = FALSE

-----------------------------------------------------------------------------
(* Vocabulary of the claims about the truth table                           *)

\* Bit k of the non-negative integer x.
Bit(x, k) == (x \div (2 ^ k)) % 2

\* C5: with n >= 1 variables the table has 2^n rows with pairwise distinct
\* inputs; row r (from 0) gives the idx-th sorted variable (from 0) bit
\* n-1-idx of 2^n-1-r; the first row is all true, the last all false, and
\* the first variable is true on the first half of the rows only.
C5_RowOrder ==
    LET n == Len(variables) IN
    (pc = "table" /\ n >= 1)
      => /\ \A i, j \in 1..n : i < j => StrLess(variables[i], variables[j])
         /\ Len(rows) = 2 ^ n
         /\ \A r, q \in 1..Len(rows) : r # q => rows[r].inputs # rows[q].inputs
         /\ \A r \in 1..Len(rows) : \A k \in 1..n :
               rows[r].inputs[variables[k]] = Bit(2 ^ n - r, n - k)
         /\ \A k \in 1..n : /\ rows[1].inputs[variables[k]] = 1
                            /\ rows[Len(rows)].inputs[variables[k]] = 0
         /\ \A r \in 1..Len(rows) :
               rows[r].inputs[variables[1]] = 1 <=> r <= 2 ^ (n - 1)

\* The table of ((P & Q) | R): eight rows, the second one P=1, Q=1, R=0.
C5_Witness ==
    /\ pc = "table"
    /\ variables = <<Tok("P"), Tok("Q"), Tok("R")>>
    /\ Len(rows) = 8
    /\ rows[2].inputs = (Tok("P") :> 1) @@ (Tok("Q") :> 1) @@ (Tok("R") :> 0)

-----------------------------------------------------------------------------
(* Claims about the reduction session                                       *)

\* The ranks of the reduction rule: NOT above the four binary connectives.
ReduceRank(t) == IF t = NOT THEN 5 ELSE ClaimRank(t)

IsLiteral(toks, i) == i \in 1..Len(toks) /\ toks[i] \in {Tok("0"), Tok("1")}

\* A NOT is reducible iff the token to its right is a literal; a binary
\* connective iff both its neighbours are literals.
Reducible(toks) ==
    {i \in 1..Len(toks) :
        \/ toks[i] = NOT /\ IsLiteral(toks, i + 1)
        \/ toks[i] \in BinaryOps /\ IsLiteral(toks, i - 1) /\ IsLiteral(toks, i + 1)}

MaxReducibleRank(toks) ==
    CHOOSE m \in 1..5 :
        /\ \E i \in Reducible(toks) : ReduceRank(toks[i]) = m
        /\ \A i \in Reducible(toks) : ReduceRank(toks[i]) <= m

\* The state a click on position idx of toks leads to, as tokens; toks itself
\* when the click is rejected.
StateAfterClick(toks, idx) ==
    LET r == interaction(idx, toks)
    IN IF r.added = <<>> THEN toks ELSE getTokens(normalize(r.added[1]))

OneAndZeroOrOne == <<Tok("1"), AND, Tok("0"), OR, Tok("1")>>

ZeroOrOne == <<Tok("0"), OR, Tok("1")>>

C6_Example ==
    /\ interaction(4, OneAndZeroOrOne) = [msg |-> OrderMsg, added |-> <<>>]
    /\ interaction(2, OneAndZeroOrOne).msg = ""
    /\ StateAfterClick(OneAndZeroOrOne, 2) = ZeroOrOne
    /\ interaction(2, ZeroOrOne).msg = ""
    /\ StateAfterClick(ZeroOrOne, 2) = <<Tok("1")>>

\* C6: a click on a reducible token is accepted (one state is appended to the
\* history) iff its rank equals the maximum rank among the reducible tokens of
\* the current state; a click on a reducible token of lower rank leaves the
\* history, and so the current tokens, as they are and sets the advisory
\* message only.  For 1 & 0 | 1 the click on OR is rejected, the click on AND
\* gives 0 | 1, and the click on OR then gives 1.
C6_StrictOrder ==
    [][/\ C6_Example
       /\ \A toks \in {currentTokens} : \A idx \in 1..Len(toks) :
            handleInteraction(idx) =>
              \E rank \in {ReduceRank(toks[idx])}, top \in {MaxReducibleRank(toks)} :
                 /\ idx \in Reducible(toks)
                 /\ (Len(history') = Len(history) + 1) <=> (rank = top)
                 /\ rank = top =>
                      /\ SubSeq(history', 1, Len(history)) = history
                      /\ history'[Len(history')].type = "reduction"
                 /\ rank < top =>
                      /\ history' = history
                      /\ getTokens(history'[Len(history')].content) = toks
                      /\ variables' = variables
                      /\ msg' = OrderMsg]_vars

\* A click was rejected for its order: a NOT is reducible and the click was
\* on a reducible binary connective.
C6_Witness ==
    /\ msg = OrderMsg
    /\ Len(history) > 2
    /\ \E i, j \in Reducible(currentTokens) :
          currentTokens[i] = NOT /\ currentTokens[j] \in BinaryOps

\* No parenthesis pair of str encloses exactly one literal and blanks.
NoWrappedLiteral(str) ==
    ~ \E i, j, k \in 1..Len(str) :
         /\ i < j /\ j < k
         /\ str[i] = "(" /\ str[j] \in {"0", "1"} /\ str[k] = ")"
         /\ \A m \in (i + 1)..(k - 1) : m # j => str[m] = " "

C7_Example ==
    /\ normalize(<<"(", "(", "1", ")", ")">>) = <<"1">>
    /\ StateAfterClick(<<LP, NOT, Tok("1"), RP>>, 2) = <<Tok("0")>>

\* C7: every state an accepted reduction appended to the history has no
\* parenthesis pair around a single literal, pairs exposed by the stripping
\* of another pair included: ((1)) becomes 1, and the NOT of ( ~ 1 ) reduces
\* to the state 0.
C7_Normalized ==
    /\ C7_Example
    /\ \A k \in 1..Len(history) :
          history[k].type = "reduction" =>
             /\ NoWrappedLiteral(history[k].content)
             /\ LET toks == getTokens(history[k].content)
                IN ~ \E i \in 1..(Len(toks) - 2) :
                      toks[i] = LP /\ IsLiteral(toks, i + 1) /\ toks[i + 2] = RP

\* The reduction of the AND of ~ (~ ((a & b))) was appended: its literal was
\* left in two pairs, both stripped.
C7_Witness ==
    \E k \in 2..Len(history) :
       /\ history[k].type = "reduction"
       /\ LET before == getTokens(history[k - 1].content)
              after == getTokens(history[k].content)
          IN /\ Len(before) = 11
             /\ SubSeq(before, 1, 5) = <<NOT, LP, NOT, LP, LP>>
             /\ before[7] = AND
             /\ Len(after) = 5
             /\ SubSeq(after, 1, 3) = <<NOT, LP, NOT>>
             /\ IsLiteral(after, 4)

-----------------------------------------------------------------------------
(* Claims about parse failures and the associativity of chains              *)

HasErrorAtom(n) == ASTNode("ATOM", ERR, null, null) \in Nodes(n)

\* C11: the parse of every token sequence that is not well formed holds the
\* parse-error atom (ATOM with value ERR).
C11_FailureSurfaced ==
    (Parsed /\ ~IsWellFormed(tokens)) => HasErrorAtom(ast)

\* C12: a check in free mode ends in exactly one of three statuses: 'error'
\* when the parse of the input holds the parse-error atom, 'correct' when the
\* input equals its canonical rendering, whitespace apart, and
\* 'custom_valid_but_loose' when it parses without error and differs.
C12_ThreeStatuses ==
    pc = "checked" =>
       LET a == parseToAST(tokenize(input))
           same == RemoveWhitespace(input) = RemoveWhitespace(toFullString(a))
       IN /\ status \in {"error", "correct", "custom_valid_but_loose"}
          /\ status = "error" <=> HasErrorAtom(a)
          /\ status = "correct" <=> (~HasErrorAtom(a) /\ same)
          /\ status = "custom_valid_but_loose" <=> (~HasErrorAtom(a) /\ ~same)

-----------------------------------------------------------------------------
(* Claims about the grading of a truth table                                *)

\* The assignment of a row, as booleans.
RowAssignment(r) == [v \in DOMAIN r.inputs |-> r.inputs[v] = 1]

\* What the learner must have entered for a column whose value is b.
Expected(b) == IF b THEN <<"1">> ELSE <<"0">>

\* Every status of a graded table is 'correct' when the entry is the
\* Evaluator's value of the column's expression on the row, 'error' otherwise.
GradedByEvaluator ==
    \A i \in 1..Len(rows) :
       LET r == rows[i]
           a == RowAssignment(r)
       IN /\ r.statusFinal \in {"correct", "error"}
          /\ r.statusFinal = "correct"
               <=> r.finalVal = Expected(solveProposition(formula, a))
          /\ DOMAIN r.statusSub = Range(subExprs)
          /\ \A x \in Range(subExprs) :
                /\ r.statusSub[x] \in {"correct", "error"}
                /\ r.statusSub[x] = "correct"
                     <=> r.subVals[x] = Expected(solveProposition(x, a))

\* The Evaluator's value of every sub-expression column is the value of the
\* sub-trees of the formula it renders, on every row.
SubColumnsAreSubTrees ==
    \A i \in 1..Len(rows) : \A x \in Range(subExprs) :
       \A n \in Nodes(parseToAST(tokenize(formula))) :
          toFullString(n) = x
            => solveProposition(x, RowAssignment(rows[i]))
                 = evalAST(n, RowAssignment(rows[i]))

-----------------------------------------------------------------------------
(* Claims about the history of a reduction session                          *)

\* C14: the history only grows at its end: every step keeps the entries it
\* found, in place and unchanged, and adds at most one; the substitution and
\* every accepted reduction add exactly one, a rejected move adds none.
C14_AppendOnly ==
    [][/\ Len(history') \in {Len(history), Len(history) + 1}
       /\ SubSeq(history', 1, Len(history)) = history
       /\ handleSubstitute => Len(history') = Len(history) + 1
       /\ \A toks \in {currentTokens} : \A idx \in 1..Len(toks) :
            handleInteraction(idx) =>
               IF ReduceRank(toks[idx]) = MaxReducibleRank(toks)
               THEN /\ Len(history') = Len(history) + 1
                    /\ history'[Len(history')].type = "reduction"
               ELSE history' = history]_vars

\* Two reductions were accepted after the substitution: four entries, the
\* first two as generate and handleSubstitute made them.
C14_Witness ==
    /\ Len(history) = 4
    /\ history[1].type = "formula"
    /\ history[2] = [step |-> 1,
                     content |-> substitute(history[1].content, variables),
                     type |-> "substituted"]
    /\ history[3].type = "reduction"
    /\ history[4].type = "reduction"

-----------------------------------------------------------------------------
(* Claims about the variables of a truth table                              *)

\* The atoms of a token list, upper-cased.
AtomNames(ts) ==
    {toUpperCase(ts[i]) : i \in {j \in 1..Len(ts) : IsAtomToken(ts[j])}}

\* A formula over the six variable names: well formed, every atom one of
\* P, Q, R, S, T, U in either case.
OverVariables(str) ==
    /\ IsWellFormed(tokenize(str))
    /\ AtomNames(tokenize(str)) \subseteq {Tok(v) : v \in {"P", "Q", "R", "S", "T", "U"}}

\* C15: the variable list of the table of a formula over the six variable
\* names is the set of the names occurring in it, upper-cased, in
\* alphabetical order, and the table has one row per assignment to them.
C15_VariablesExact ==
    (pc = "table" /\ OverVariables(formula))
       => /\ Range(variables) = AtomNames(tokenize(formula))
          /\ \A i, j \in 1..Len(variables) :
                i < j => StrLess(variables[i], variables[j])
          /\ Len(rows) = 2 ^ Len(variables)

\* A formula without variables: each of its letter runs reads T or F.
ZeroVariables(str) ==
    \A i \in 1..Len(LetterRuns(str, <<>>)) :
       toUpperCase(LetterRuns(str, <<>>)[i]) \in {Tok("T"), Tok("F")}

\* C16: every step that leaves a formula without variables leaves no row, no
\* variable and no sub-expression column, whatever the table was before.
C16_NoVariablesNoTable ==
    [][(pc' = "table" /\ ZeroVariables(formula'))
          => (rows' = <<>> /\ variables' = <<>> /\ subExprs' = <<>>)]_vars

\* The formula ~~1 was typed: it has the compound sub-expression (~ 1), and
\* the table is empty.
C16_Witness ==
    /\ pc = "table"
    /\ formula = <<"~", "~", "1">>
    /\ tableSubs(formula) = << <<"(", "~", " ", "1", ")">> >>
    /\ rows = <<>>
    /\ variables = <<>>
    /\ subExprs = <<>>

-----------------------------------------------------------------------------
(* Claims about the atoms of the Evaluator                                  *)

\* The value the claim gives an atom under the assignment `values`.
AtomValue(t) ==
    IF t \in {Tok("1"), Tok("T")} THEN TRUE
    ELSE IF t \in {Tok("0"), Tok("F")} THEN FALSE
    ELSE LET name == [i \in 1..Len(t) |->
                        IF t[i] = "p" THEN "P" ELSE IF t[i] = "q" THEN "Q"
                        ELSE t[i]]
         IN name \in DOMAIN values /\ values[name]

\* C17: an atom evaluates to true when it is 1 or T and to false when it is 0
\* or F, whatever the assignment; any other atom has the value the assignment
\* gives its upper-cased name, false when the name is missing.  Stated for
\* formulas that are an atom or the negation of an atom.
C17_AtomValues ==
    pc = "solved" =>
       LET ts == tokenize(formula) IN
       /\ (Len(ts) = 1 /\ IsAtomToken(ts[1])) => (solved <=> AtomValue(ts[1]))
       /\ (Len(ts) = 2 /\ ts[1] = NOT /\ IsAtomToken(ts[2]))
            => (solved <=> ~AtomValue(ts[2]))

\* T was solved to true under an assignment that gives T the value false.
C17_Witness ==
    /\ pc = "solved"
    /\ formula = <<"T">>
    /\ Tok("T") \in DOMAIN values
    /\ values[Tok("T")] = FALSE
    /\ solved = TRUE

-----------------------------------------------------------------------------
(* Claims about the formula generators                                      *)

\* C18: every string generateFlatFormula or generateStructuredFormula returns
\* parses to a tree without the parse-error atom; the recursion of
\* generateStructuredFormula is never called with a depth above maxDepth; the
\* formula that starts a reduction session has at least 15 characters.
C18_GeneratorsWellFormed ==
    /\ pc = "parsed" => (ast # null /\ ~HasErrorAtom(ast))
    /\ deepest <= StructuredMaxDepth
    /\ pc = "session" => Len(history[1].content) >= 15

\* The flat formula  ~ P = T & ~ T > P  was generated and parsed into a tree
\* of connectives over its four terms.
C18_Witness ==
    /\ pc = "parsed"
    /\ formula = <<"~", " ", "P", " ", "=", " ", "T", " ", "&", " ",
                   "~", " ", "T", " ", ">", " ", "P">>
    /\ formula \in generateFlatFormula(3)
    /\ ast.type = "BIN"
    /\ ~HasErrorAtom(ast)
    /\ Cardinality({n \in Nodes(ast) : n.type = "ATOM"}) = 2

-----------------------------------------------------------------------------
(* Claims about chains of one connective                                    *)

\* The depth-zero binary connectives of least rank in a slice.
LowestDepthZero(sl) ==
    {i \in DepthZeroBinary(sl) :
        \A j \in DepthZeroBinary(sl) : ClaimRank(sl[i]) <= ClaimRank(sl[j])}

Atom(t) == ASTNode("ATOM", t, null, null)

Bin(op, l, r) == ASTNode("BIN", op, l, r)

\* C19: when the depth-zero binary connective of least rank occurs several
\* times in the stripped slice, the parse is the Binary node split at the
\* rightmost of them; P op Q op R parses to ((P op Q) op R) for each of the
\* four binary connectives.
C19_RightmostSplit ==
    LET sl == stripOuter(tokens)
        low == LowestDepthZero(sl)
        k == Max(low)
    IN /\ (pc = "parsed" /\ Cardinality(low) >= 2)
            => ast = Bin(sl[k], parseToAST(SubSeq(sl, 1, k - 1)),
                                parseToAST(SubSeq(sl, k + 1, Len(sl))))
       /\ \A op \in BinaryOps :
            (pc = "parsed" /\ tokens = <<P, op, Q, op, R>>)
               => ast = Bin(op, Bin(op, Atom(P), Atom(Q)), Atom(R))

\* P & Q & R has been parsed: the root is the second AND, the first AND is
\* its left operand.
C19_Witness ==
    /\ pc = "parsed"
    /\ tokens = <<P, AND, Q, AND, R>>
    /\ LowestDepthZero(tokens) = {2, 4}
    /\ ast.type = "BIN"
    /\ ast.left = Bin(AND, Atom(P), Atom(Q))
    /\ ast.right = Atom(R)

\* C20 as stated: for IMPLIES and IFF, P op Q op R parses with the grouping
\* (P op (Q op R)).
C20_Original ==
    \A op \in {IMP, IFF} :
        (pc = "parsed" /\ tokens = <<P, op, Q, op, R>>)
           => ast = Bin(op, Atom(P), Bin(op, Atom(Q), Atom(R)))

\* C20 amended: for IMPLIES and IFF too, a well-formed chain whose only
\* depth-zero binary connectives are two occurrences of the connective groups
\* to the left: A op B op C parses to ((A op B) op C).
C20_ChainsGroupLeft ==
    pc = "parsed" =>
       LET dz == DepthZeroBinary(tokens)
           i == CHOOSE x \in dz : \A y \in dz : x <= y
           j == Max(dz)
       IN (/\ Cardinality(dz) = 2
           /\ tokens[i] = tokens[j]
           /\ tokens[i] \in {IMP, IFF}
           /\ IsWellFormed(tokens))
             => ast = Bin(tokens[j],
                          Bin(tokens[i],
                              parseToAST(SubSeq(tokens, 1, i - 1)),
                              parseToAST(SubSeq(tokens, i + 1, j - 1))),
                          parseToAST(SubSeq(tokens, j + 1, Len(tokens))))

\* P = Q = R has been parsed to ((P = Q) = R).
C20_Witness ==
    /\ pc = "parsed"
    /\ tokens = <<P, IFF, Q, IFF, R>>
    /\ ast = Bin(IFF, Bin(IFF, Atom(P), Atom(Q)), Atom(R))

-----------------------------------------------------------------------------
(* Claims about the stripping of outer parentheses                          *)

\* Opening minus closing parentheses among the first k tokens.
PrefixDepth(ts, k) ==
    Cardinality({j \in 1..k : ts[j] = LP}) - Cardinality({j \in 1..k : ts[j] = RP})

\* Equal counts, depth never negative.
BalancedTokens(ts) ==
    /\ PrefixDepth(ts, Len(ts)) = 0
    /\ \A k \in 1..Len(ts) : PrefixDepth(ts, k) >= 0

\* An outermost pair that qualifies for removal.
HasOuterPair(ts) ==
    /\ Len(ts) >= 2
    /\ ts[1] = LP
    /\ ts[Len(ts)] = RP
    /\ BalancedTokens(SubSeq(ts, 2, Len(ts) - 1))

RECURSIVE Wrap(_, _)
Wrap(ts, n) == IF n = 0 THEN ts ELSE <<LP>> \o Wrap(ts, n - 1) \o <<RP>>

\* Outer pairs added around a parsed sequence.
MaxWrap == 2

\* C21: the slice parseToAST works on differs from its argument exactly when
\* the argument has a qualifying outer pair, is the argument without some
\* number of outer pairs and has no qualifying pair itself; a well-formed
\* sequence in extra outer pairs parses to the same tree; ( P ) & ( Q ) is not
\* stripped and parses to the Binary AND of P and Q.
C21_StripOuterPairs ==
    pc = "parsed" =>
       LET sl == stripOuter(tokens) IN
       /\ (sl # tokens) <=> HasOuterPair(tokens)
       /\ ~HasOuterPair(sl)
       /\ \E n \in 0..Len(tokens) : tokens = Wrap(sl, n)
       /\ ast = parseToAST(sl)
       /\ IsWellFormed(tokens)
            => \A n \in 1..MaxWrap : parseToAST(Wrap(tokens, n)) = ast
       /\ tokens = <<LP, P, RP, AND, LP, Q, RP>>
            => (sl = tokens /\ ast = Bin(AND, Atom(P), Atom(Q)))

\* ( P ) & ( Q ) has been parsed, unstripped, to the Binary AND of P and Q,
\* the same tree as that of the sequence in two more outer pairs.
C21_Witness ==
    /\ pc = "parsed"
    /\ tokens = <<LP, P, RP, AND, LP, Q, RP>>
    /\ ~HasOuterPair(tokens)
    /\ ast = Bin(AND, Atom(P), Atom(Q))
    /\ parseToAST(Wrap(tokens, 2)) = ast

-----------------------------------------------------------------------------
(* Claims about the columns of a truth table                                *)

\* The canonical strings of the Negation and Binary nodes of the formula's
\* tree, that of the whole tree apart.
ProperCompounds(str) ==
    LET tree == parseToAST(tokenize(str))
    IN {toFullString(n) : n \in {m \in Nodes(tree) : m.type # "ATOM"}}
          \ {toFullString(tree)}

\* C22: when a table is generated (the formula has a variable), its
\* sub-expression columns are the distinct compound sub-expressions of the
\* formula, each once, without the canonical string of the whole formula and
\* without atom strings, in ascending order of length.
C22_ColumnsExact ==
    (pc = "table" /\ variables # <<>>) =>
       /\ Range(subExprs) = ProperCompounds(formula)
       /\ Len(subExprs) = Cardinality(Range(subExprs))
       /\ toFullString(parseToAST(tokenize(formula))) \notin Range(subExprs)
       /\ \A i \in 1..Len(subExprs) : ~isAtomString(subExprs[i])
       /\ \A i \in 1..(Len(subExprs) - 1) :
             Len(subExprs[i]) <= Len(subExprs[i + 1])

\* (~ (P) & ~ (P)) was generated: its two identical negations give one
\* column, and the conjunction itself gives none.
C22_Witness ==
    /\ pc = "table"
    /\ formula = <<"(", "~", " ", "(", "P", ")", " ", "&", " ",
                   "~", " ", "(", "P", ")", ")">>
    /\ variables = <<P>>
    /\ subExprs = << <<"(", "~", " ", "P", ")">> >>

-----------------------------------------------------------------------------
(* Claims about the moves of a reduction session                            *)

\* A single token 0 or 1.
Terminal(toks) == toks \in {<<Tok("0")>>, <<Tok("1")>>}

\* C23: once the values are substituted, the tokens the handler counts as
\* candidates and the tokens rendered clickable are exactly the NOT tokens
\* with a literal to their right and the binary connectives with a literal on
\* both sides; no literal and no parenthesis is clickable, and a terminal
\* state has no clickable token.
C23_ReducibleExactly ==
    Len(history) > 1 =>
       LET toks == currentTokens IN
       /\ candidates(toks) = Reducible(toks)
       /\ \A i \in 1..Len(toks) :
             /\ interactable(toks, i) <=> i \in Reducible(toks)
             /\ (IsLiteral(toks, i) \/ toks[i] \in {LP, RP})
                   => ~interactable(toks, i)
       /\ Terminal(toks)
             => (candidates(toks) = {}
                 /\ \A i \in 1..Len(toks) : ~interactable(toks, i))

\* A state after a reduction with a clickable connective next to a NOT that
\* is not clickable, its operand still being in parentheses.
C23_Witness ==
    /\ Len(history) > 2
    /\ \E i, j \in 1..Len(currentTokens) :
          /\ currentTokens[i] = NOT
          /\ i \notin Reducible(currentTokens)
          /\ ~interactable(currentTokens, i)
          /\ currentTokens[j] \in BinaryOps
          /\ interactable(currentTokens, j)

\* The literal of a truth value, and the truth value of a literal.
Lit(b) == IF b THEN Tok("1") ELSE Tok("0")

IsOne(t) == t = Tok("1")

\* The result the claim gives a binary connective on two literals.
OpResult(l, op, r) ==
    CASE op = AND -> Lit(IsOne(l) /\ IsOne(r))
      [] op = OR -> Lit(IsOne(l) \/ IsOne(r))
      [] op = IMP -> Lit(IsOne(l) => IsOne(r))
      [] op = IFF -> Lit(IsOne(l) <=> IsOne(r))

\* The tokens an accepted reduction at position i leaves, before the
\* normalization: the consumed tokens give way to one literal.
Spliced(toks, i) ==
    IF toks[i] = NOT
    THEN SubSeq(toks, 1, i - 1) \o <<Lit(~IsOne(toks[i + 1]))>>
         \o SubSeq(toks, i + 2, Len(toks))
    ELSE SubSeq(toks, 1, i - 2)
         \o <<OpResult(toks[i - 1], toks[i], toks[i + 1])>>
         \o SubSeq(toks, i + 2, Len(toks))

\* C24: an accepted click on position idx hands addToHistory a string whose
\* tokens are those of the current state with NOT and its operand replaced by
\* the negated literal, or with a binary connective and its two neighbours
\* replaced by the result of the connective, every other token as it was and
\* where it was; the entry appended is the normalization of that string.
C24_SpliceInPlace ==
    [][\A toks \in {currentTokens} : \A idx \in 1..Len(toks) :
          (handleInteraction(idx) /\ Len(history') = Len(history) + 1)
             => \E r \in {interaction(idx, toks)} :
                   /\ Len(r.added) = 1
                   /\ getTokens(r.added[1]) = Spliced(toks, idx)
                   /\ history'[Len(history')].content = normalize(r.added[1])
                   /\ Len(Spliced(toks, idx))
                        = Len(toks) - (IF toks[idx] = NOT THEN 1 ELSE 2)]_vars

\* A NOT and a binary connective have both been reduced in one session.
C24_Witness ==
    /\ Len(history) > 3
    /\ \E k, m \in 2..(Len(history) - 1) :
          /\ Len(getTokens(history[k + 1].content))
               = Len(getTokens(history[k].content)) - 1
          /\ \E i \in Reducible(getTokens(history[k].content)) :
                getTokens(history[k].content)[i] = NOT
          /\ \E i \in Reducible(getTokens(history[m].content)) :
                getTokens(history[m].content)[i] \in BinaryOps
          /\ history[m + 1].type = "reduction"
          /\ k # m

\* A click on position idx of toks is offered and accepted.
Accepted(toks, idx) ==
    /\ interactable(toks, idx)
    /\ interaction(idx, toks).added # <<>>

\* C25: after the substitution every state of a session is terminal or has a
\* token whose click is accepted.
C25_NeverStuck ==
    Len(history) > 1 =>
       \/ Terminal(currentTokens)
       \/ \E idx \in 1..Len(currentTokens) : Accepted(currentTokens, idx)

\* The value solveProposition gives a literal-only string.
ValueOf(str) == solveProposition(str, <<>>)

\* C26: in a session, whose formula generateStructuredFormula made, every
\* entry after the substitution has the value the Evaluator gives the
\* substituted formula, and the literal of a terminal state is 1 exactly when
\* that value is true.
C26_ValuePreserved ==
    Len(history) > 1 =>
       /\ ValueOf(currentStep.content) = ValueOf(history[2].content)
       /\ Terminal(currentTokens)
             => (currentTokens = <<Tok("1")>> <=> ValueOf(history[2].content))

\* A session ended in the literal 1 after at least two reductions.
C26_Witness ==
    /\ Len(history) > 3
    /\ currentTokens = <<Tok("1")>>
    /\ ValueOf(history[2].content) = TRUE
    /\ history[Len(history)].type = "reduction"

-----------------------------------------------------------------------------
(* Claims about clicks on token lists that are not fully parenthesized      *)

\* The value the Evaluator gives a token list.
ValueOfTokens(toks) == evalAST(parseToAST(toks), <<>>)

-----------------------------------------------------------------------------
(* Claims about the length and the phases of a reduction session            *)

TokenCount(entry) == Len(getTokens(entry.content))

\* C28: every accepted reduction appends a state with strictly fewer tokens
\* than the state it was applied to, and a session whose substituted state
\* has k tokens holds at most k - 1 reductions.
C28_Shrinks ==
    [][(/\ Len(history') = Len(history) + 1
        /\ history'[Len(history')].type = "reduction")
          => /\ TokenCount(history'[Len(history')])
                  < TokenCount(history[Len(history)])
             /\ TokenCount(history'[Len(history')]) >= 1
             /\ Len(history') - 2 <= TokenCount(history'[2]) - 1]_vars

\* Three reductions were accepted, each state shorter than the one before.
C28_Witness ==
    /\ Len(history) = 5
    /\ \A k \in 2..4 : TokenCount(history[k + 1]) < TokenCount(history[k])
    /\ \A k \in 3..5 : history[k].type = "reduction"

\* The entries of a history in their phases: one formula, then at most one
\* substitution, then reductions; every step field is the entry's index.
PhasesInOrder(h) ==
    /\ Len(h) >= 1
    /\ \A k \in 1..Len(h) :
          /\ h[k].step = k - 1
          /\ h[k].type = (IF k = 1 THEN "formula"
                          ELSE IF k = 2 THEN "substituted" ELSE "reduction")

\* C29: a session keeps the order of its phases.  The first step, and the
\* only step that shortens the history, is a new problem, asked for at the
\* mount or in a solved state: it leaves one entry of type 'formula' and no
\* message; the substitution happens only on a
\* history of one entry and appends the entry of type 'substituted';
\* reductions are offered only on a history of more than one entry whose
\* current state is not solved, and append entries of type 'reduction'; every
\* entry's step is its index.
C29_PhaseOrder ==
    [][/\ pc' = "session" => PhasesInOrder(history')
       /\ (pc = "mount" \/ Len(history') < Len(history))
            => /\ pc = "mount" \/ Terminal(getTokens(history[Len(history)].content))
               /\ Len(history') = 1
               /\ history'[1].type = "formula"
               /\ msg' = ""
       /\ handleSubstitute
            => /\ Len(history) = 1
               /\ Len(history') = 2
               /\ history'[2].type = "substituted"
       /\ (history # <<>> /\ \E idx \in 1..Len(currentTokens) :
                                handleInteraction(idx))
            => /\ Len(history) > 1
               /\ ~Terminal(currentTokens)
               /\ \/ history' = history
                  \/ /\ Len(history') = Len(history) + 1
                     /\ history'[Len(history')].type = "reduction"]_vars

\* A problem was solved in three reductions after its substitution; the
\* next problem can be asked for.
C29_Witness ==
    /\ pc = "session"
    /\ Len(history) = 5
    /\ PhasesInOrder(history)
    /\ Terminal(currentTokens)
    /\ ENABLED generateWithin(MaxSessionLen)

-----------------------------------------------------------------------------
(* Claims about substitution and evaluation                                 *)

\* The assignment of a session as solveProposition takes it: true for '1'.
AsBooleans(vs) == [k \in {Tok(c) : c \in DOMAIN vs} |-> vs[k[1]] = "1"]

\* C30: the Evaluator gives the formula of a session, under the session's
\* assignment, the value it gives the substituted string, and the
\* substituted string holds none of the six variable names.
C30_SubstitutionAgrees ==
    (pc = "session" /\ Len(history) >= 2) =>
       /\ solveProposition(history[1].content, AsBooleans(variables))
            = solveProposition(history[2].content, <<>>)
       /\ varsFound(history[2].content) = {}


====
